---------------------------- MODULE Spec2Model ----------------------------
(***************************************************************************)
(* NDI Bridge receiver (join-python/receiver.py): the wire-header parser,  *)
(* the per-media-type FrameReassembler, the receive loop of                *)
(* NDIBridgeReceiver.run and the decoder-read thread (decoder_loop).       *)
(*                                                                         *)
(* Byte strings are sequences of naturals 0..255; Python's data[k] is      *)
(* data[k+1] here.  Python's None is the value None; a dict is a function  *)
(* whose DOMAIN is the set of keys.                                        *)
(***************************************************************************)
EXTENDS Integers, Sequences, FiniteSets, TLC

(***************************************************************************)
(* Bounds of the model.                                                    *)
(***************************************************************************)
\* largest sequence number a fragment handed to add_fragment carries
MaxSeq == 2
\* largest fragment_index / fragment_count a fragment handed to add_fragment carries
MaxFrag == 2
\* datagrams the socket delivers in a burst (see Environments)
MaxPackets == 3
\* datagrams the socket delivers while the decoder emits frames
MaxDecodePackets == 1
\* full frames the decoder process produces on its output
MaxReads == 2
\* stats reports (log_stats calls) in one run of the receive loop
MaxTicks == 1

(***************************************************************************)
(* Protocol constants (receiver.py:31-32).                                 *)
(***************************************************************************)
MAGIC == 1313098050
HEADER_SIZE == 38

None == -1

VARIABLES
    running,          \* self.running
    ndi_send,         \* self.ndi_send is set (the sink exists)
    pcMain,           \* position of the thread that executes run()
    pcDec,            \* position of the thread that executes decoder_loop()
    ffmpeg,           \* the decoder process: "none", "alive", "draining", "dead"
    video,            \* self.video_reassembler
    audio,            \* self.audio_reassembler
    packets_received, \* self.packets_received
    bytes_received,   \* self.bytes_received
    video_frames,     \* self.video_frames
    audio_frames,     \* self.audio_frames
    tmp,              \* the value send_ndi_video loaded for video_frames += 1
    decIn,            \* the bytes that reached the decoder's stdin
    sinkAudio,        \* the audio frames handed to ndi.send_send_audio_v2, in order
    sinkVideo,        \* number of calls of ndi.send_send_video_v2
    uncaught,         \* the exception that left the receive loop, or "none"
    shutdown,         \* a shutdown (KeyboardInterrupt) was requested
    log,              \* history: the frames the reassemblers returned, in order
    evt,              \* history: what the last step of the receive thread did
    ret,              \* history: what the last add_fragment call returned
    run,              \* history: the fragments of the collection in progress
    nRecv,            \* datagrams received so far
    nTicks,           \* stats reports so far
    nReads,           \* full frames read from the decoder so far
    env,              \* what the network and the decoder do in this run
    pkt,              \* history: the bytes last handed to parse_header alone
    parse_result,     \* history: what parse_header returned for pkt
    counted_at_reset, \* history: the forwarded frames that video_frames had
                      \* counted when log_stats last reset it
    frame_data,       \* what the last read of the decoder's output returned
    sinkFrames,       \* the buffers handed to ndi.send_send_video_v2, in order
    av,               \* receiver_av.py: video_frags, video_seq of Receiver.run
    minimal           \* receiver_minimal.py: fragments, current_seq of run

vars == <<running, ndi_send, pcMain, pcDec, ffmpeg, video, audio,
          packets_received, bytes_received, video_frames, audio_frames, tmp,
          decIn, sinkAudio, sinkVideo, uncaught, shutdown, log, evt, ret, run,
          nRecv, nTicks, nReads, env, pkt, parse_result,
          counted_at_reset, frame_data, sinkFrames, av, minimal>>

\* what a call of add_fragment made on its own leaves alone
receiverVars == <<running, ndi_send, pcMain, pcDec, ffmpeg, audio,
                  packets_received, bytes_received, video_frames, audio_frames,
                  tmp, decIn, sinkAudio, sinkVideo, uncaught, shutdown, log,
                  evt, nRecv, nTicks, nReads, env, counted_at_reset,
                  frame_data, sinkFrames>>

\* the history of the reassembler and of the parser driven alone, and the
\* reassembly of the other two receivers
historyVars == <<ret, run, pkt, parse_result, av, minimal>>

(***************************************************************************)
(* FrameReassembler (receiver.py:34-67).                                   *)
(***************************************************************************)
NoFragments == [i \in {} |-> <<>>]

\* FrameReassembler.__init__
FrameReassembler ==
    [fragments |-> NoFragments, current_sequence |-> None, expected_count |-> 0]

\* Store as a list append: the payload lands at the next free position,
\* whatever fragment_index the header carries.
Store_append(fragments, frag_idx, payload) ==
    [i \in (DOMAIN fragments) \cup {Cardinality(DOMAIN fragments)} |->
        IF i \in DOMAIN fragments THEN fragments[i] ELSE payload]

\* Store as dict.setdefault: a repeated index keeps the payload stored first.
Store_setdefault(fragments, frag_idx, payload) ==
    [i \in (DOMAIN fragments) \cup {frag_idx} |->
        IF i \in DOMAIN fragments THEN fragments[i] ELSE payload]

\* self.fragments[frag_idx] = payload
Store(fragments, frag_idx, payload) ==
    [i \in (DOMAIN fragments) \cup {frag_idx} |->
        IF i = frag_idx THEN payload ELSE fragments[i]]

\* the join in descending index order
RECURSIVE Join_reversed(_, _, _)
Join_reversed(fragments, i, frag_count) ==
    IF i >= frag_count THEN <<>>
    ELSE Join_reversed(fragments, i + 1, frag_count) \o fragments[i]

\* b''.join(self.fragments[i] for i in range(frag_count)), from index i on
RECURSIVE Join(_, _, _)
Join(fragments, i, frag_count) ==
    IF i >= frag_count THEN <<>>
    ELSE fragments[i] \o Join(fragments, i + 1, frag_count)

\* NewSequence without line 52: the fragments of the old sequence are kept.
NewSequence_keep(self, seq, frag_count) ==
    IF self.current_sequence # seq
    THEN [fragments |-> self.fragments, current_sequence |-> seq,
          expected_count |-> frag_count]
    ELSE self

\* NewSequence without the test of line 49: every fragment resets the collector.
NewSequence_always(self, seq, frag_count) ==
    [fragments |-> NoFragments, current_sequence |-> seq,
     expected_count |-> frag_count]

\* The state after lines 48-54: a fragment of another sequence resets the collector.
NewSequence(self, seq, frag_count) ==
    IF self.current_sequence # seq
    THEN [fragments |-> NoFragments, current_sequence |-> seq,
          expected_count |-> frag_count]
    ELSE self

\* the completion test as "at least frag_count fragments are stored"
IsComplete_atleast(fragments, frag_count) ==
    Cardinality(DOMAIN fragments) >= frag_count

\* len(self.fragments) == frag_count
IsComplete(fragments, frag_count) ==
    Cardinality(DOMAIN fragments) = frag_count

\* add_fragment without line 64: current_sequence is kept on completion
add_fragment_keepseq(self, header, payload) ==
    LET seq == header.sequence_number
        frag_idx == header.fragment_index
        frag_count == header.fragment_count
        s1 == NewSequence(self, seq, frag_count)
        s2 == [s1 EXCEPT !.fragments = Store(s1.fragments, frag_idx, payload)]
    IN  IF IsComplete(s2.fragments, frag_count)
        THEN IF \A i \in 0..(frag_count - 1) : i \in DOMAIN s2.fragments
             THEN [self |-> [s2 EXCEPT !.fragments = NoFragments],
                   kind |-> "frame",
                   data |-> Join(s2.fragments, 0, frag_count)]
             ELSE [self |-> s2, kind |-> "raise", data |-> <<>>]
        ELSE [self |-> s2, kind |-> "none", data |-> <<>>]

\* add_fragment(header, payload): the new state of the reassembler and what the
\* call does: kind "none" (returns None), "frame" (returns data) or "raise"
\* (KeyError in the join: an index of range(frag_count) is not stored).
add_fragment(self, header, payload) ==
    LET seq == header.sequence_number
        frag_idx == header.fragment_index
        frag_count == header.fragment_count
        s1 == NewSequence(self, seq, frag_count)
        s2 == [s1 EXCEPT !.fragments = Store(s1.fragments, frag_idx, payload)]
    IN  IF IsComplete(s2.fragments, frag_count)
        THEN IF \A i \in 0..(frag_count - 1) : i \in DOMAIN s2.fragments
             THEN [self |-> [s2 EXCEPT !.fragments = NoFragments,
                                       !.current_sequence = None],
                   kind |-> "frame",
                   data |-> Join(s2.fragments, 0, frag_count)]
             ELSE [self |-> s2, kind |-> "raise", data |-> <<>>]
        ELSE [self |-> s2, kind |-> "none", data |-> <<>>]

(***************************************************************************)
(* History of one reassembler, kept beside it and never read by the code.  *)
(* run describes the fragments handed over since a fragment of a sequence  *)
(* other than the current one arrived:                                     *)
(*   n           fragment_count of that first fragment                     *)
(*   count       fragment_count of the last fragment                       *)
(*   got         the latest payload received for each index                *)
(*   uniform     every fragment carried fragment_count n and an index < n  *)
(*   dup         some call repeated an index already received              *)
(*   lastDup     the last call repeated an index already received          *)
(*   replaced    the last call repeated an index with another payload      *)
(*   unordered   some fragment arrived after one of a higher index         *)
(*   superseded  another sequence was partially collected when the run     *)
(*               began                                                     *)
(*   seqs        the sequence numbers the fragments carried                *)
(***************************************************************************)
NoRun ==
    [n |-> 0, count |-> 0, got |-> NoFragments, uniform |-> FALSE, dup |-> FALSE,
     lastDup |-> FALSE, replaced |-> FALSE, unordered |-> FALSE,
     superseded |-> FALSE, seqs |-> {}]

\* got with the payload of index k set to v (the history's own bookkeeping)
Put(got, k, v) == (k :> v) @@ got

RunAfter(r, self, header, payload) ==
    LET idx == header.fragment_index
        inRange == idx < header.fragment_count
    IN  IF self.current_sequence # header.sequence_number
        THEN [n |-> header.fragment_count,
              count |-> header.fragment_count,
              got |-> Put(NoFragments, idx, payload),
              uniform |-> inRange,
              dup |-> FALSE,
              lastDup |-> FALSE,
              replaced |-> FALSE,
              unordered |-> FALSE,
              superseded |-> self.current_sequence # None
                               /\ DOMAIN self.fragments # {},
              seqs |-> {header.sequence_number}]
        ELSE [r EXCEPT
                !.count = header.fragment_count,
                !.got = Put(r.got, idx, payload),
                !.uniform = r.uniform /\ inRange /\ header.fragment_count = r.n,
                !.dup = r.dup \/ idx \in DOMAIN r.got,
                !.lastDup = idx \in DOMAIN r.got,
                !.replaced = idx \in DOMAIN r.got /\ r.got[idx] # payload,
                !.unordered = r.unordered \/ \E j \in DOMAIN r.got : j > idx,
                !.seqs = r.seqs \cup {header.sequence_number}]

\* The payloads of got for the indices 0..n-1, concatenated in index order.
RECURSIVE InIndexOrder(_, _)
InIndexOrder(got, n) ==
    IF n <= 0 THEN <<>> ELSE InIndexOrder(got, n - 1) \o got[n - 1]

NoRet == [kind |-> "init", data |-> <<>>]

(***************************************************************************)
(* SpecR: one FrameReassembler driven through add_fragment with arbitrary  *)
(* headers and payloads.                                                   *)
(***************************************************************************)
Payloads == {<<7>>, <<8, 9>>}

FragmentHeaders ==
    [sequence_number : 1..MaxSeq,
     fragment_index  : 0..MaxFrag,
     fragment_count  : 0..MaxFrag]

\* decoder_loop has not read anything yet
NoRead == [read |-> 0, len |-> "none"]

NoEvt ==
    [op |-> "none", write |-> "none", valid |-> FALSE, media |-> None,
     seq |-> None]

InitReceiver ==
    /\ running = FALSE
    /\ ndi_send = FALSE
    /\ pcMain = "start"
    /\ pcDec = "unstarted"
    /\ ffmpeg = "none"
    /\ video = FrameReassembler
    /\ audio = FrameReassembler
    /\ packets_received = 0
    /\ bytes_received = 0
    /\ video_frames = 0
    /\ audio_frames = 0
    /\ tmp = 0
    /\ decIn = <<>>
    /\ sinkAudio = <<>>
    /\ sinkVideo = 0
    /\ uncaught = "none"
    /\ shutdown = FALSE
    /\ log = <<>>
    /\ evt = NoEvt
    /\ ret = NoRet
    /\ run = NoRun
    /\ nRecv = 0
    /\ nTicks = 0
    /\ nReads = 0
    /\ pkt = <<>>
    /\ parse_result = <<>>
    /\ counted_at_reset = 0
    /\ frame_data = NoRead
    /\ sinkFrames = <<>>
    /\ av = [video_frags |-> NoFragments, video_seq |-> None, out |-> NoRet]
    /\ minimal = [fragments |-> NoFragments, current_seq |-> None,
                  out |-> NoRet]

InitR ==
    /\ InitReceiver
    /\ env = [inputs |-> {}, packets |-> 0, frames |-> 0, ticks |-> 0]

AddFragmentCall ==
    \E header \in FragmentHeaders, payload \in Payloads :
        LET res == add_fragment(video, header, payload)
        IN  /\ video' = res.self
            /\ ret' = [kind |-> res.kind, data |-> res.data]
            /\ run' = RunAfter(run, video, header, payload)
            /\ UNCHANGED receiverVars
            /\ UNCHANGED <<pkt, parse_result, av, minimal>>

NextR == AddFragmentCall

SpecR == InitR /\ [][NextR]_vars

(***************************************************************************)
(* SpecV: the video reassembly of the three receivers, fed with the same   *)
(* fragments: FrameReassembler.add_fragment (receiver.py), the inline code *)
(* of Receiver.run (receiver_av.py:149-160) and of MinimalReceiver.run     *)
(* (receiver_minimal.py:111-122).  out is what the step does with the      *)
(* decoder's input: kind "none" (nothing), "frame" (stdin.write(data)) or  *)
(* "raise" (KeyError in the join).                                         *)
(***************************************************************************)
\* b''.join(frags[i] for i in range(frag_count)), up to index n - 1
RECURSIVE inline_join(_, _)
inline_join(frags, n) ==
    IF n = 0 THEN <<>> ELSE inline_join(frags, n - 1) \o frags[n - 1]

\* receiver_av.py:149-160, the media_type == 0 branch
av_video(self, seq, frag_idx, frag_count, payload) ==
    LET video_frags == IF self.video_seq # seq THEN NoFragments
                       ELSE self.video_frags
        stored == [i \in (DOMAIN video_frags) \cup {frag_idx} |->
                      IF i = frag_idx THEN payload ELSE video_frags[i]]
    IN  IF Cardinality(DOMAIN stored) = frag_count
        THEN IF \A i \in 0..(frag_count - 1) : i \in DOMAIN stored
             THEN [video_frags |-> NoFragments, video_seq |-> None,
                   out |-> [kind |-> "frame",
                            data |-> inline_join(stored, frag_count)]]
             ELSE [video_frags |-> stored, video_seq |-> seq,
                   out |-> [kind |-> "raise", data |-> <<>>]]
        ELSE [video_frags |-> stored, video_seq |-> seq,
              out |-> [kind |-> "none", data |-> <<>>]]

\* receiver_minimal.py:111-122
minimal_video(self, seq, frag_idx, frag_count, payload) ==
    LET fragments == IF self.current_seq # seq THEN NoFragments
                     ELSE self.fragments
        stored == [i \in (DOMAIN fragments) \cup {frag_idx} |->
                      IF i = frag_idx THEN payload ELSE fragments[i]]
    IN  IF Cardinality(DOMAIN stored) = frag_count
        THEN IF \A i \in 0..(frag_count - 1) : i \in DOMAIN stored
             THEN [fragments |-> NoFragments, current_seq |-> None,
                   out |-> [kind |-> "frame",
                            data |-> inline_join(stored, frag_count)]]
             ELSE [fragments |-> stored, current_seq |-> seq,
                   out |-> [kind |-> "raise", data |-> <<>>]]
        ELSE [fragments |-> stored, current_seq |-> seq,
              out |-> [kind |-> "none", data |-> <<>>]]

\* the payloads of the video packets: those of Payloads and the empty one
VideoPayloads == Payloads \cup {<<>>}

\* One valid video packet reaches each of the three receivers.
VideoPacket ==
    \E header \in FragmentHeaders, payload \in VideoPayloads :
        LET res == add_fragment(video, header, payload)
        IN  /\ video' = res.self
            /\ ret' = [kind |-> res.kind, data |-> res.data]
            /\ av' = av_video(av, header.sequence_number,
                              header.fragment_index, header.fragment_count,
                              payload)
            /\ minimal' = minimal_video(minimal, header.sequence_number,
                                        header.fragment_index,
                                        header.fragment_count, payload)
            /\ UNCHANGED receiverVars
            /\ UNCHANGED <<run, pkt, parse_result>>

InitV ==
    /\ InitReceiver
    /\ env = [inputs |-> {}, packets |-> 0, frames |-> 0, ticks |-> 0]

NextV == VideoPacket

SpecV == InitV /\ [][NextV]_vars

(***************************************************************************)
(* The wire header (receiver.py:70-94).                                    *)
(***************************************************************************)
Min(a, b) == IF a <= b THEN a ELSE b

\* Python's data[lo:hi]
Slice(data, lo, hi) == SubSeq(data, lo + 1, Min(hi, Len(data)))

\* unpack reading the bytes little-endian
RECURSIVE unpack_le(_)
unpack_le(bytes) ==
    IF bytes = <<>> THEN 0
    ELSE bytes[1] + 256 * unpack_le(Tail(bytes))

\* the unsigned big-endian value of a byte string (struct.unpack('>I' / '>H' / '>Q'))
RECURSIVE unpack(_)
unpack(bytes) ==
    IF bytes = <<>> THEN 0
    ELSE 256 * unpack(SubSeq(bytes, 1, Len(bytes) - 1)) + bytes[Len(bytes)]

\* parse_header without the magic test of lines 75-77
parse_header_nomagic(data) ==
    IF Len(data) < HEADER_SIZE THEN <<>>
    ELSE << [magic           |-> unpack(Slice(data, 0, 4)),
             version         |-> data[5],
             media_type      |-> data[6],
             source_id       |-> data[7],
             flags           |-> data[8],
             sequence_number |-> unpack(Slice(data, 8, 12)),
             timestamp       |-> unpack(Slice(data, 12, 20)),
             total_size      |-> unpack(Slice(data, 20, 24)),
             fragment_index  |-> unpack(Slice(data, 24, 26)),
             fragment_count  |-> unpack(Slice(data, 26, 28)),
             payload_size    |-> unpack(Slice(data, 28, 30)),
             sample_rate     |-> unpack(Slice(data, 30, 34)),
             channels        |-> data[35],
             is_keyframe     |-> (data[8] % 2) = 1] >>

\* parse_header(data): <<>> for None, <<header>> for the dict
parse_header(data) ==
    IF Len(data) < HEADER_SIZE THEN <<>>
    ELSE IF unpack(Slice(data, 0, 4)) # MAGIC THEN <<>>
    ELSE << [magic           |-> unpack(Slice(data, 0, 4)),
             version         |-> data[5],
             media_type      |-> data[6],
             source_id       |-> data[7],
             flags           |-> data[8],
             sequence_number |-> unpack(Slice(data, 8, 12)),
             timestamp       |-> unpack(Slice(data, 12, 20)),
             total_size      |-> unpack(Slice(data, 20, 24)),
             fragment_index  |-> unpack(Slice(data, 24, 26)),
             fragment_count  |-> unpack(Slice(data, 26, 28)),
             payload_size    |-> unpack(Slice(data, 28, 30)),
             sample_rate     |-> unpack(Slice(data, 30, 34)),
             channels        |-> data[35],
             is_keyframe     |-> (data[8] % 2) = 1] >>

(***************************************************************************)
(* The datagrams the network delivers.  Wire builds a datagram from the    *)
(* fields the receiver reads, laid out as parse_header reads them.         *)
(***************************************************************************)
\* the n-byte big-endian encoding of x
RECURSIVE BE(_, _)
BE(x, n) == IF n = 0 THEN <<>> ELSE BE(x \div 256, n - 1) \o <<x % 256>>

Wire(media_type, seq, idx, count, payload_size, sample_rate, channels, body) ==
    BE(MAGIC, 4) \o <<1, media_type, 0, 0>> \o BE(seq, 4) \o BE(0, 8)
      \o BE(Len(body), 4) \o BE(idx, 2) \o BE(count, 2) \o BE(payload_size, 2)
      \o BE(sample_rate, 4) \o <<channels>> \o <<0, 0, 0>> \o body

PCM8 == <<11, 12, 13, 14, 15, 16, 17, 18>>

VideoDatagrams ==
    { Wire(0, 1, 0, 1, 4, 0, 0, <<65, 66, 67, 68>>),   \* a one-fragment frame
      Wire(0, 2, 0, 2, 3, 0, 0, <<65, 66, 67>>),      \* "ABC", fragment 0 of 2
      Wire(0, 2, 1, 2, 3, 0, 0, <<68, 69, 70>>),      \* "DEF", fragment 1 of 2
      Wire(0, 1, 1, 1, 4, 0, 0, <<65, 66, 67, 68>>),   \* index 1 of a count of 1
      Wire(0, 1, 0, 1, 0, 0, 0, <<>>),                \* an empty frame
      Wire(0, 1, 0, 1, 2, 0, 0, <<71, 72, 73>>) }     \* payload_size below the body

AudioDatagrams ==
    { Wire(1, 1, 0, 1, 8, 48000, 2, PCM8),            \* 8 bytes of PCM, 2 channels
      Wire(1, 1, 0, 1, 8, 44100, 0, PCM8),            \* channels = 0
      Wire(1, 2, 0, 2, 2, 44100, 1, <<21, 22>>),      \* half a sample, fragment 0 of 2
      Wire(1, 2, 1, 2, 2, 44100, 1, <<23, 24>>),      \* half a sample, fragment 1 of 2
      Wire(1, 1, 0, 1, 2, 48000, 2, <<21, 22>>),      \* a frame of 2 bytes
      Wire(1, 1, 0, 1, 0, 48000, 2, <<>>) }           \* an empty frame

OtherDatagrams ==
    { Wire(2, 1, 0, 1, 4, 0, 0, <<65, 66, 67, 68>>),  \* unknown media type
      SubSeq(Wire(0, 1, 0, 1, 0, 0, 0, <<>>), 1, HEADER_SIZE - 1),   \* too short
      <<0>> \o Slice(Wire(0, 1, 0, 1, 0, 0, 0, <<>>), 1, HEADER_SIZE) } \* bad magic

Datagrams == VideoDatagrams \cup AudioDatagrams \cup OtherDatagrams

\* the datagrams of a run that exercises the decoder-read thread
FewDatagrams ==
    { Wire(0, 1, 0, 1, 4, 0, 0, <<65, 66, 67, 68>>),
      Wire(0, 2, 0, 2, 3, 0, 0, <<65, 66, 67>>),      \* fragment 0 of 2
      Wire(1, 1, 0, 1, 8, 48000, 2, PCM8) }

\* A run is either a burst of up to MaxPackets datagrams of Datagrams, within
\* one stats interval and before the decoder has emitted anything, or up to
\* MaxDecodePackets datagrams of FewDatagrams while the decoder emits up to
\* MaxReads frames and up to MaxTicks stats intervals elapse.
Environments ==
    { [inputs |-> Datagrams, packets |-> MaxPackets, frames |-> 0, ticks |-> 0],
      [inputs |-> FewDatagrams, packets |-> MaxDecodePackets,
       frames |-> MaxReads, ticks |-> MaxTicks] }

(***************************************************************************)
(* SpecP: parse_header driven alone with datagrams of every length up to   *)
(* a header and a payload, right and wrong magic values, and every header  *)
(* byte varied.                                                            *)
(***************************************************************************)
\* the datagram d with the byte at offset k replaced by b
WithByte(d, k, b) == [d EXCEPT ![k + 1] = b]

\* well-formed datagrams over a range of header values
ValidDatagrams ==
    { Wire(m, s, i, c, 3, r, ch, body) :
        m \in 0..2, s \in {1, 258}, i \in 0..MaxFrag, c \in {0, MaxFrag},
        r \in {0, 48000}, ch \in {0, 2}, body \in {<<>>, <<65, 66, 67>>} }

BaseDatagram == Wire(1, 258, 1, 2, 3, 48000, 2, <<65, 66, 67>>)

\* the offsets of the header bytes after the magic value, without the high
\* half of the timestamp (kept zero: the model's integers have 32 bits)
VariedOffsets == (4..(HEADER_SIZE - 1)) \ (12..15)

ParserInputs ==
    ValidDatagrams
      \cup { SubSeq(BaseDatagram, 1, n) : n \in 0..Len(BaseDatagram) }
      \cup { WithByte(Wire(m, s, i, c, 3, 0, ch, <<>>), k, 0) :
               m \in 0..2, s \in {1, 258}, i \in 0..MaxFrag, c \in {0, MaxFrag},
               ch \in {0, 2}, k \in 0..3 }
      \cup { WithByte(BaseDatagram, k, b) : k \in VariedOffsets, b \in {2, 3} }
      \cup { <<66, 73, 68, 78>> \o Slice(BaseDatagram, 4, Len(BaseDatagram)) }

\* header = parse_header(data), as at line 220
ParseHeaderCall ==
    \E d \in ParserInputs :
        /\ pkt' = d
        /\ parse_result' = parse_header(d)
        /\ UNCHANGED receiverVars
        /\ UNCHANGED <<video, ret, run, av, minimal>>

InitP ==
    /\ InitReceiver
    /\ env = [inputs |-> {}, packets |-> 0, frames |-> 0, ticks |-> 0]

NextP == ParseHeaderCall

SpecP == InitP /\ [][NextP]_vars

(***************************************************************************)
(* NDIBridgeReceiver.process_packet (receiver.py:218-241).                 *)
(***************************************************************************)
\* Python's truth value of a bytes object
Truthy(frame) == frame # <<>>

\* the video branch taken for everything that is not audio
IsVideo_notAudio(header) == header.media_type # 1

\* the audio branch taken for everything that is not video
IsAudio_notVideo(header) == header.media_type # 0

\* header['media_type'] == 0 / == 1 (lines 229, 238)
IsVideo(header) == header.media_type = 0
IsAudio(header) == header.media_type = 1

\* decoder_write with the try/except of lines 232-236 left out
decoder_write_nocatch(frame) ==
    IF Truthy(frame) /\ ffmpeg # "none"
    THEN IF ffmpeg = "alive" THEN "ok" ELSE "BrokenPipeError"
    ELSE "skip"

\* Lines 231-236: "skip" (no write), "ok" (written and flushed), "caught" (the
\* write or flush raised and the except clause logged it); anything else is
\* the name of an exception that leaves process_packet.
decoder_write(frame) ==
    IF Truthy(frame) /\ ffmpeg # "none"
    THEN IF ffmpeg = "alive" THEN "ok" ELSE "caught"
    ELSE "skip"

\* send_ndi_audio(audio_data, sample_rate, channels), lines 200-216: "skip"
\* (no sink), "ok" (the frame was handed to the sink), or the exception raised:
\* the division of line 206, np.frombuffer of line 213 on a length that is no
\* multiple of 4, or the sink call itself (sinkOk is the sink's answer).
send_ndi_audio(audio_data, sample_rate, channels, sinkOk) ==
    IF ~ndi_send THEN "skip"
    ELSE IF channels = 0 THEN "ZeroDivisionError"
    ELSE IF Len(audio_data) % 4 # 0 THEN "ValueError"
    ELSE IF ~sinkOk THEN "SinkError"
    ELSE "ok"

\* the audio frame built at lines 206-213
AudioFrame(audio_data, sample_rate, channels) ==
    [data |-> audio_data, sample_rate |-> sample_rate, no_channels |-> channels,
     no_samples |-> Len(audio_data) \div (4 * channels)]

\* History: a frame a reassembler returned, with the header of the packet that
\* completed it, whether the decoder process was alive, and whether the sink
\* accepts the frame (sinkOk, recorded for audio only).
LogEntry(header, frame, sinkOk) ==
    [media |-> header.media_type, seq |-> header.sequence_number, data |-> frame,
     sample_rate |-> header.sample_rate, channels |-> header.channels,
     alive |-> ffmpeg = "alive", sinkOk |-> sinkOk]

\* the unsigned value of the width bytes of d from offset on, most
\* significant byte first, as the wire table lays the fields out
RECURSIVE FieldAt(_, _, _)
FieldAt(d, offset, width) ==
    IF width = 0 THEN 0
    ELSE 256 * FieldAt(d, offset, width - 1) + d[offset + width]

\* History: what the step did (op, write) with a datagram, and what the
\* datagram is by the wire table: whether it has 38 bytes or more and the
\* magic value 4E 44 49 42, and if so its mediaType byte and sequence number.
Evt(d, op, write) ==
    LET valid == /\ Len(d) >= 38
                 /\ <<d[1], d[2], d[3], d[4]>> = <<78, 68, 73, 66>>
    IN  [op |-> op, write |-> write, valid |-> valid,
         media |-> IF valid THEN FieldAt(d, 5, 1) ELSE None,
         seq |-> IF valid THEN FieldAt(d, 8, 4) ELSE None]

\* An exception left process_packet: it is caught neither at line 292 nor at
\* line 300, so the finally clause runs and run() ends.
Raised(exc) ==
    /\ uncaught' = exc
    /\ pcMain' = "finally"

Returned ==
    /\ uncaught' = uncaught
    /\ pcMain' = "tick"

\* process_packet(data) called from line 291
process_packet(data, sinkOk) ==
    LET parsed == parse_header(data)
    IN  IF parsed = <<>>
        THEN /\ Returned
             /\ evt' = Evt(data, "dropped", "none")
             /\ UNCHANGED <<video, audio, packets_received, bytes_received,
                            audio_frames, decIn, sinkAudio, log>>
        ELSE
        LET header == parsed[1]
            payload == Slice(data, HEADER_SIZE, HEADER_SIZE + header.payload_size)
        IN  /\ packets_received' = packets_received + 1
            /\ bytes_received' = bytes_received + Len(data)
            /\ IF IsVideo(header)
               THEN LET res == add_fragment(video, header, payload)
                        w == IF res.kind = "frame" THEN decoder_write(res.data)
                             ELSE "skip"
                    IN  /\ video' = res.self
                        /\ log' = IF res.kind = "frame"
                                  THEN Append(log, LogEntry(header, res.data, TRUE))
                                  ELSE log
                        /\ decIn' = IF w = "ok" THEN decIn \o res.data ELSE decIn
                        /\ evt' = Evt(data, "video",
                                       IF res.kind = "frame" THEN w ELSE "none")
                        /\ IF res.kind = "raise" THEN Raised("KeyError")
                           ELSE IF w \in {"skip", "ok", "caught"} THEN Returned
                           ELSE Raised(w)
                        /\ UNCHANGED <<audio, audio_frames, sinkAudio>>
               ELSE IF IsAudio(header)
               THEN LET res == add_fragment(audio, header, payload)
                        a == IF res.kind = "frame" /\ Truthy(res.data)
                             THEN send_ndi_audio(res.data, header.sample_rate,
                                                 header.channels, sinkOk)
                             ELSE "skip"
                    IN  /\ audio' = res.self
                        /\ log' = IF res.kind = "frame"
                                  THEN Append(log, LogEntry(header, res.data, sinkOk))
                                  ELSE log
                        /\ sinkAudio' =
                              IF a = "ok"
                              THEN Append(sinkAudio,
                                          AudioFrame(res.data, header.sample_rate,
                                                     header.channels))
                              ELSE sinkAudio
                        /\ audio_frames' = IF a = "ok" THEN audio_frames + 1
                                           ELSE audio_frames
                        /\ evt' = Evt(data, "audio", "none")
                        /\ IF res.kind = "raise" THEN Raised("KeyError")
                           ELSE IF a \in {"skip", "ok"} THEN Returned
                           ELSE Raised(a)
                        /\ UNCHANGED <<video, decIn>>
               ELSE /\ Returned
                    /\ evt' = Evt(data, "other", "none")
                    /\ UNCHANGED <<video, audio, audio_frames, decIn, sinkAudio, log>>


(***************************************************************************)
(* NDIBridgeReceiver.run, the receive thread (receiver.py:258-311).        *)
(***************************************************************************)
mainVars == <<running, ndi_send, pcMain, ffmpeg, video, audio, packets_received,
              bytes_received, audio_frames, decIn, sinkAudio, uncaught,
              shutdown, log, evt, nRecv, nTicks>>

\* Lines 269-270, start_ndi: run() returns when the sink cannot be created.
StartNdi ==
    /\ pcMain = "start"
    /\ \E ok \in BOOLEAN :
          /\ ndi_send' = ok
          /\ pcMain' = IF ok THEN "start_ffmpeg" ELSE "returned"
    /\ UNCHANGED <<running, pcDec, ffmpeg, video, audio, packets_received,
                   bytes_received, video_frames, audio_frames, tmp, decIn,
                   sinkAudio, sinkVideo, uncaught, shutdown, log, evt, nRecv,
                   nTicks, nReads, env>>
    /\ UNCHANGED historyVars
    /\ UNCHANGED counted_at_reset
    /\ UNCHANGED <<frame_data, sinkFrames>>

\* Line 272, start_ffmpeg (lines 142-167): the decoder process is spawned and
\* the decoder-read thread is started.
StartFfmpeg ==
    /\ pcMain = "start_ffmpeg"
    /\ ffmpeg' = "alive"
    /\ pcDec' = "check"
    /\ pcMain' = "listen"
    /\ UNCHANGED <<running, ndi_send, video, audio, packets_received,
                   bytes_received, video_frames, audio_frames, tmp, decIn,
                   sinkAudio, sinkVideo, uncaught, shutdown, log, evt, nRecv,
                   nTicks, nReads, env>>
    /\ UNCHANGED historyVars
    /\ UNCHANGED counted_at_reset
    /\ UNCHANGED <<frame_data, sinkFrames>>

\* Lines 274-285: the socket is bound and self.running is set.
Listen ==
    /\ pcMain = "listen"
    /\ running' = TRUE
    /\ pcMain' = "loop"
    /\ UNCHANGED <<ndi_send, pcDec, ffmpeg, video, audio, packets_received,
                   bytes_received, video_frames, audio_frames, tmp, decIn,
                   sinkAudio, sinkVideo, uncaught, shutdown, log, evt, nRecv,
                   nTicks, nReads, env>>
    /\ UNCHANGED historyVars
    /\ UNCHANGED counted_at_reset
    /\ UNCHANGED <<frame_data, sinkFrames>>

\* Line 288: while self.running
LoopTest ==
    /\ pcMain = "loop"
    /\ pcMain' = IF running THEN "recv" ELSE "finally"
    /\ UNCHANGED <<running, ndi_send, pcDec, ffmpeg, video, audio,
                   packets_received, bytes_received, video_frames, audio_frames,
                   tmp, decIn, sinkAudio, sinkVideo, uncaught, shutdown, log,
                   evt, nRecv, nTicks, nReads, env>>
    /\ UNCHANGED historyVars
    /\ UNCHANGED counted_at_reset
    /\ UNCHANGED <<frame_data, sinkFrames>>

\* Lines 290-291: recvfrom returns a datagram and process_packet handles it.
RecvPacket ==
    /\ pcMain = "recv"
    /\ nRecv < env.packets
    /\ \E data \in env.inputs, sinkOk \in BOOLEAN : process_packet(data, sinkOk)
    /\ nRecv' = nRecv + 1
    /\ UNCHANGED <<running, ndi_send, pcDec, ffmpeg, video_frames, tmp,
                   sinkVideo, shutdown, nTicks, nReads, env>>
    /\ UNCHANGED historyVars
    /\ UNCHANGED counted_at_reset
    /\ UNCHANGED <<frame_data, sinkFrames>>

\* Lines 292-293: recvfrom times out after one second.
RecvTimeout ==
    /\ pcMain = "recv"
    /\ pcMain' = "tick"
    /\ UNCHANGED <<running, ndi_send, pcDec, ffmpeg, video, audio,
                   packets_received, bytes_received, video_frames, audio_frames,
                   tmp, decIn, sinkAudio, sinkVideo, uncaught, shutdown, log,
                   evt, nRecv, nTicks, nReads, env>>
    /\ UNCHANGED historyVars
    /\ UNCHANGED counted_at_reset
    /\ UNCHANGED <<frame_data, sinkFrames>>

\* Line 296: less than a second since the last report.
StatsNotDue ==
    /\ pcMain = "tick"
    /\ pcMain' = "loop"
    /\ UNCHANGED <<running, ndi_send, pcDec, ffmpeg, video, audio,
                   packets_received, bytes_received, video_frames, audio_frames,
                   tmp, decIn, sinkAudio, sinkVideo, uncaught, shutdown, log,
                   evt, nRecv, nTicks, nReads, env>>
    /\ UNCHANGED historyVars
    /\ UNCHANGED counted_at_reset
    /\ UNCHANGED <<frame_data, sinkFrames>>

\* log_stats, lines 245-253: the report is printed when packets arrived, and
\* packets_received and bytes_received are reset.
LogStatsReport ==
    /\ pcMain = "tick"
    /\ nTicks < env.ticks
    /\ nTicks' = nTicks + 1
    /\ packets_received' = 0
    /\ bytes_received' = 0
    /\ pcMain' = "ls_video"
    /\ UNCHANGED <<running, ndi_send, pcDec, ffmpeg, video, audio, video_frames,
                   audio_frames, tmp, decIn, sinkAudio, sinkVideo, uncaught,
                   shutdown, log, evt, nRecv, nReads, env>>
    /\ UNCHANGED historyVars
    /\ UNCHANGED counted_at_reset
    /\ UNCHANGED <<frame_data, sinkFrames>>

\* log_stats, line 254: self.video_frames = 0
LogStatsVideo ==
    /\ pcMain = "ls_video"
    /\ video_frames' = 0
    /\ pcMain' = "ls_audio"
    /\ UNCHANGED <<running, ndi_send, pcDec, ffmpeg, video, audio,
                   packets_received, bytes_received, audio_frames, tmp, decIn,
                   sinkAudio, sinkVideo, uncaught, shutdown, log, evt, nRecv,
                   nTicks, nReads, env>>
    /\ UNCHANGED historyVars
    /\ counted_at_reset' =
          IF pcDec = "store" THEN sinkVideo - 1 ELSE sinkVideo
    /\ UNCHANGED <<frame_data, sinkFrames>>

\* log_stats, lines 255-256, and line 298
LogStatsAudio ==
    /\ pcMain = "ls_audio"
    /\ audio_frames' = 0
    /\ pcMain' = "loop"
    /\ UNCHANGED <<running, ndi_send, pcDec, ffmpeg, video, audio,
                   packets_received, bytes_received, video_frames, tmp, decIn,
                   sinkAudio, sinkVideo, uncaught, shutdown, log, evt, nRecv,
                   nTicks, nReads, env>>
    /\ UNCHANGED historyVars
    /\ UNCHANGED counted_at_reset
    /\ UNCHANGED <<frame_data, sinkFrames>>

\* Line 300: Ctrl+C while the loop runs, the explicit shutdown request.
KeyboardInterrupt ==
    /\ pcMain \in {"loop", "recv", "tick", "ls_video", "ls_audio"}
    /\ shutdown' = TRUE
    /\ pcMain' = "finally"
    /\ UNCHANGED <<running, ndi_send, pcDec, ffmpeg, video, audio,
                   packets_received, bytes_received, video_frames, audio_frames,
                   tmp, decIn, sinkAudio, sinkVideo, uncaught, log, evt, nRecv,
                   nTicks, nReads, env>>
    /\ UNCHANGED historyVars
    /\ UNCHANGED counted_at_reset
    /\ UNCHANGED <<frame_data, sinkFrames>>

\* the decoder process after it ended: part of a frame is left on its output
\* ("draining"), or nothing is ("dead")
Ended == {"draining", "dead"}

\* what the end of the decoder process leaves: nothing when it emits nothing
EndOfDecoder == IF env.frames = 0 THEN {"dead"} ELSE Ended

\* Lines 303-305: self.running = False, the socket is closed.
FinallyClearRunning ==
    /\ pcMain = "finally"
    /\ running' = FALSE
    /\ pcMain' = "terminate"
    /\ UNCHANGED <<ndi_send, pcDec, ffmpeg, video, audio, packets_received,
                   bytes_received, video_frames, audio_frames, tmp, decIn,
                   sinkAudio, sinkVideo, uncaught, shutdown, log, evt, nRecv,
                   nTicks, nReads, env>>
    /\ UNCHANGED historyVars
    /\ UNCHANGED counted_at_reset
    /\ UNCHANGED <<frame_data, sinkFrames>>

\* Lines 306-311: the decoder process is terminated, the sink destroyed.
FinallyTerminate ==
    /\ pcMain = "terminate"
    /\ IF ffmpeg = "alive" THEN ffmpeg' \in EndOfDecoder ELSE ffmpeg' = ffmpeg
    /\ pcMain' = "stopped"
    /\ UNCHANGED <<running, ndi_send, pcDec, video, audio, packets_received,
                   bytes_received, video_frames, audio_frames, tmp, decIn,
                   sinkAudio, sinkVideo, uncaught, shutdown, log, evt, nRecv,
                   nTicks, nReads, env>>
    /\ UNCHANGED historyVars
    /\ UNCHANGED counted_at_reset
    /\ UNCHANGED <<frame_data, sinkFrames>>

(***************************************************************************)
(* The decoder process, as far as the receiver can tell.                   *)
(***************************************************************************)
\* The decoder process ends by itself (a broken stream, a crash).
FfmpegExits ==
    /\ ffmpeg = "alive"
    /\ ffmpeg' \in EndOfDecoder
    /\ UNCHANGED <<running, ndi_send, pcMain, pcDec, video, audio,
                   packets_received, bytes_received, video_frames, audio_frames,
                   tmp, decIn, sinkAudio, sinkVideo, uncaught, shutdown, log,
                   evt, nRecv, nTicks, nReads, env>>
    /\ UNCHANGED historyVars
    /\ UNCHANGED counted_at_reset
    /\ UNCHANGED <<frame_data, sinkFrames>>

(***************************************************************************)
(* NDIBridgeReceiver.decoder_loop, the decoder-read thread                 *)
(* (receiver.py:169-198).                                                  *)
(***************************************************************************)
\* the loop condition with the running flag left out
LoopCondition_noflag == ffmpeg # "none"

\* Line 173: self.running and self.ffmpeg_process
LoopCondition == running /\ ffmpeg # "none"

\* Line 173: while self.running and self.ffmpeg_process
DecoderLoopTest ==
    /\ pcDec = "check"
    /\ pcDec' = IF LoopCondition THEN "read" ELSE "exited"
    /\ UNCHANGED <<tmp, sinkVideo, nReads, video_frames, env>>
    /\ UNCHANGED mainVars
    /\ UNCHANGED historyVars
    /\ UNCHANGED counted_at_reset
    /\ UNCHANGED <<frame_data, sinkFrames>>

\* len(data) == frame_size with everything but the empty read taken for a frame
IsFullFrame_nonempty(d) == d.len # "zero"

\* Line 176: len(data) == frame_size
IsFullFrame(d) == d.len = "frame_size"

\* Lines 176-177: a full frame goes to send_ndi_video, anything else back to
\* the loop test.
AfterRead(d) == IF IsFullFrame(d) THEN "send" ELSE "check"

\* Lines 175-177: the read returns frame_size bytes.
DecoderReadFrame ==
    /\ pcDec = "read"
    /\ ffmpeg = "alive"
    /\ nReads < env.frames
    /\ nReads' = nReads + 1
    /\ frame_data' = [read |-> nReads + 1, len |-> "frame_size"]
    /\ pcDec' = AfterRead(frame_data')
    /\ UNCHANGED <<tmp, sinkVideo, video_frames, env>>
    /\ UNCHANGED mainVars
    /\ UNCHANGED historyVars
    /\ UNCHANGED counted_at_reset
    /\ UNCHANGED sinkFrames

\* Lines 175-176: the decoder has ended and the read returns what is left of
\* a frame, or nothing at end of file; nothing is sent and the loop goes on.
DecoderReadShort ==
    /\ pcDec = "read"
    /\ ffmpeg \in Ended
    /\ ffmpeg' = "dead"
    /\ frame_data' = [read |-> 0,
                      len |-> IF ffmpeg = "draining" THEN "partial" ELSE "zero"]
    /\ pcDec' = AfterRead(frame_data')
    /\ UNCHANGED <<running, ndi_send, pcMain, video, audio, packets_received,
                   bytes_received, video_frames, audio_frames, tmp, decIn,
                   sinkAudio, sinkVideo, uncaught, shutdown, log, evt, nRecv,
                   nTicks, nReads, env>>
    /\ UNCHANGED historyVars
    /\ UNCHANGED counted_at_reset
    /\ UNCHANGED sinkFrames

\* Lines 178-180: the read raises; the loop is left.
DecoderReadError ==
    /\ pcDec = "read"
    /\ pcDec' = "exited"
    /\ UNCHANGED <<tmp, sinkVideo, nReads, video_frames, env>>
    /\ UNCHANGED mainVars
    /\ UNCHANGED historyVars
    /\ UNCHANGED counted_at_reset
    /\ UNCHANGED <<frame_data, sinkFrames>>

\* send_ndi_video, lines 184-198 up to the load of self.video_frames: the
\* frame is handed to the sink; a failure of the sink is caught at line 178.
DecoderSend ==
    /\ pcDec = "send"
    /\ IF ~ndi_send
       THEN /\ pcDec' = "check"
            /\ UNCHANGED <<tmp, sinkVideo, sinkFrames>>
       ELSE \E sinkOk \in BOOLEAN :
               IF sinkOk
               THEN /\ sinkVideo' = sinkVideo + 1
                    /\ sinkFrames' = Append(sinkFrames, frame_data)
                    /\ tmp' = video_frames
                    /\ pcDec' = "store"
               ELSE /\ pcDec' = "exited"
                    /\ UNCHANGED <<tmp, sinkVideo, sinkFrames>>
    /\ UNCHANGED <<nReads, video_frames, env>>
    /\ UNCHANGED mainVars
    /\ UNCHANGED historyVars
    /\ UNCHANGED counted_at_reset
    /\ UNCHANGED frame_data

\* send_ndi_video, line 198: the store of self.video_frames += 1
DecoderStore ==
    /\ pcDec = "store"
    /\ video_frames' = tmp + 1
    /\ pcDec' = "check"
    /\ UNCHANGED <<tmp, sinkVideo, nReads, env>>
    /\ UNCHANGED mainVars
    /\ UNCHANGED historyVars
    /\ UNCHANGED counted_at_reset
    /\ UNCHANGED <<frame_data, sinkFrames>>

(***************************************************************************)
(* The receiver: both threads and the decoder process.                     *)
(***************************************************************************)
Init ==
    /\ InitReceiver
    /\ env \in Environments

ReceiveThread ==
    \/ StartNdi
    \/ StartFfmpeg
    \/ Listen
    \/ LoopTest
    \/ RecvPacket
    \/ RecvTimeout
    \/ StatsNotDue
    \/ LogStatsReport
    \/ LogStatsVideo
    \/ LogStatsAudio
    \/ KeyboardInterrupt
    \/ FinallyClearRunning
    \/ FinallyTerminate

DecoderThread ==
    \/ DecoderLoopTest
    \/ DecoderReadFrame
    \/ DecoderReadShort
    \/ DecoderReadError
    \/ DecoderSend
    \/ DecoderStore

Next == ReceiveThread \/ DecoderThread \/ FfmpegExits

Spec == Init /\ [][Next]_vars

\* The threads are scheduled, the finally clause runs to its end, and a read
\* of the output of a decoder process that has ended returns.
Fairness ==
    /\ WF_vars(DecoderLoopTest)
    /\ WF_vars(DecoderReadShort)
    /\ WF_vars(DecoderSend)
    /\ WF_vars(DecoderStore)
    /\ WF_vars(FinallyClearRunning)
    /\ WF_vars(FinallyTerminate)

FairSpec == Spec /\ Fairness


(***************************************************************************)
(* Claims about FrameReassembler.add_fragment, checked under SpecR.        *)
(***************************************************************************)

\* C1: from a state whose current sequence is not S, when the N >= 1 fragments
\* of S, each carrying fragment_count N, arrive with distinct indices 0..N-1
\* in any order and nothing in between, every call before the N-th returns
\* None and the N-th returns the payloads concatenated in index order.
C1_PermutationCompletes ==
    (run.uniform /\ ~run.dup /\ run.n >= 1) =>
        IF Cardinality(DOMAIN run.got) < run.n
        THEN ret.kind = "none"
        ELSE ret.kind = "frame" /\ ret.data = InIndexOrder(run.got, run.n)

\* C1 witness: a two-fragment sequence delivered as index 1, then index 0,
\* completes with the payload of index 0 first.
C1_Witness ==
    /\ run.uniform /\ ~run.dup /\ run.n = 2 /\ run.unordered
    /\ DOMAIN run.got = {0, 1}
    /\ run.got[0] = <<7>> /\ run.got[1] = <<8, 9>>
    /\ ret.kind = "frame" /\ ret.data = <<7, 8, 9>>

\* C3: when S is partially collected and the first fragment of another
\* sequence with fragment_count M > 1 arrives, that call returns None and only
\* the new fragment is stored; while that sequence's fragments (all carrying
\* M) arrive, a frame is returned only once the indices 0..M-1 have all
\* arrived, and it is the concatenation of the payloads they carried.
C3_SupersededDiscarded ==
    (run.superseded /\ run.uniform /\ run.n > 1) =>
        /\ (Cardinality(DOMAIN run.got) = 1 /\ ~run.dup) => ret.kind = "none"
        /\ ret.kind = "none" => video.fragments = run.got
        /\ ret.kind = "frame" =>
              /\ DOMAIN run.got = 0..(run.n - 1)
              /\ ret.data = InIndexOrder(run.got, run.n)
              /\ video.fragments = NoFragments

\* C3 witness: a two-fragment sequence that superseded a partial one completes.
C3_Witness ==
    /\ run.superseded /\ run.uniform /\ run.n = 2
    /\ ret.kind = "frame" /\ Len(ret.data) = 3

\* C4: a fragment whose index is already stored for the active sequence
\* replaces the stored payload and leaves the number of stored indices as it
\* was; it completes the sequence only if every index below its
\* fragment_count is stored, and a returned frame holds the payload received
\* last for every index.
C4_DuplicateOverwrites ==
    /\ run.lastDup =>
          /\ ret.kind # "frame" => video.fragments = run.got
          /\ run.uniform => ret.kind # "frame"
          /\ ret.kind = "frame" => DOMAIN run.got = 0..(run.count - 1)
    /\ (run.dup /\ ret.kind = "frame") =>
          ret.data = InIndexOrder(run.got, run.count)

\* C4 witness: an index was repeated with another payload, nothing was
\* returned, and the map holds the later payload under the same indices.
C4_Witness ==
    /\ run.lastDup /\ run.replaced /\ run.uniform
    /\ ret.kind = "none"
    /\ video.fragments = run.got

(***************************************************************************)
(* Claims about NDIBridgeReceiver, checked under Spec and FairSpec.        *)
(***************************************************************************)

\* C2: within one media type the sequence numbers of the frames add_fragment
\* returns are strictly increasing: no frame of an older sequence after a
\* newer one, and no sequence number twice.
C2_IncreasingSequences ==
    \A i, j \in DOMAIN log :
        (i < j /\ log[i].media = log[j].media) => log[i].seq < log[j].seq

\* the bytes of the video frames of the log that were returned while the
\* decoder process was alive, in order
RECURSIVE VideoBytes(_)
VideoBytes(l) ==
    IF l = <<>> THEN <<>>
    ELSE (IF Head(l).media = 0 /\ Head(l).alive THEN Head(l).data ELSE <<>>)
           \o VideoBytes(Tail(l))

\* C5: the bytes written to the decoder's input are exactly the frames the
\* video reassembler returned (while the decoder took input), concatenated in
\* completion order, each once and unmodified, and nothing else.
C5_DecoderInput ==
    decIn = VideoBytes(log)

\* C5 witness: "ABC" and "DEF" of sequence 2, then a one-fragment frame of
\* sequence 1, reached the decoder as "ABCDEF" followed by that frame.
C5_Witness ==
    /\ decIn = <<65, 66, 67, 68, 69, 70, 65, 66, 67, 68>>
    /\ Len(log) = 2 /\ log[1].seq = 2 /\ log[2].seq = 1

\* the audio frames of the log that hold bytes and that the sink accepts, as
\* the sink is to see them
RECURSIVE AudioDue(_)
AudioDue(l) ==
    IF l = <<>> THEN <<>>
    ELSE (IF Head(l).media = 1 /\ Head(l).data # <<>> /\ Head(l).sinkOk
          THEN << [data |-> Head(l).data, sample_rate |-> Head(l).sample_rate,
                   no_channels |-> Head(l).channels] >>
          ELSE <<>>)
           \o AudioDue(Tail(l))

\* the audio frames handed to the sink, without the sample count
AudioSeen ==
    [i \in DOMAIN sinkAudio |->
        [data |-> sinkAudio[i].data, sample_rate |-> sinkAudio[i].sample_rate,
         no_channels |-> sinkAudio[i].no_channels]]

\* C6: every audio frame the audio reassembler completed (here: every one
\* that holds bytes and that the sink accepts) was handed to the sink's audio
\* write once, bytes unchanged, with the sampleRate and channels of its header.
C6_AudioDelivered ==
    AudioSeen = AudioDue(log)

\* C7: the receive loop ends only after a shutdown request, whatever
\* datagrams arrive and whatever the decoder does (stated here for the runs
\* in which the sink call itself does not raise).
C7_LoopRunsUntilShutdown ==
    pcMain \in {"finally", "terminate", "stopped"} =>
        (shutdown \/ uncaught = "SinkError")

\* C8: the video-frame counter is written by the decoder-read thread alone,
\* and each of its writes adds one to the value the counter holds.
C8_SingleWriter ==
    [][video_frames' # video_frames =>
          (pcDec = "store" /\ pcDec' = "check"
             /\ video_frames' = video_frames + 1)]_vars

\* C9: once the running flag has been cleared (line 304), the receive loop
\* has ended and the decoder-read loop eventually ends too.
C9_ShutdownTerminates ==
    (pcMain \in {"terminate", "stopped"})
        ~> (pcMain = "stopped" /\ pcDec = "exited")

\* C9 witness: after a shutdown request that found the decoder-read thread in
\* its loop with two frames forwarded, both threads have ended.
C9_Witness ==
    /\ shutdown /\ ~running
    /\ pcMain = "stopped" /\ pcDec = "exited"
    /\ sinkVideo = 2 /\ ffmpeg = "dead"

\* the step completed a video frame that holds bytes while the decoder
\* process had ended: the write (or flush) to its input fails
WriteFails ==
    /\ Len(log') = Len(log) + 1
    /\ log'[Len(log')].media = 0
    /\ log'[Len(log')].data # <<>>
    /\ ~log'[Len(log')].alive

\* C10: a failed write of a completed video frame is caught: the receive
\* loop goes on to the stats check, no exception leaves process_packet, and
\* the video reassembler is Idle as after a successful write.
C10_WriteFailureCaught ==
    [][WriteFails =>
          /\ pcMain' = "tick"
          /\ uncaught' = "none"
          /\ video'.current_sequence = None
          /\ video'.fragments = NoFragments
          /\ decIn' = decIn]_vars

\* C10 witness: after a video frame whose write failed, a later video frame
\* and a later audio frame were completed and the loop is still running.
C10_Witness ==
    /\ uncaught = "none" /\ pcMain = "tick"
    /\ \E i, j, k \in DOMAIN log :
          /\ i < j /\ i < k
          /\ log[i].media = 0 /\ ~log[i].alive /\ log[i].data # <<>>
          /\ log[j].media = 0
          /\ log[k].media = 1
    /\ Len(sinkAudio) = 1

\* the step completed an audio frame that holds bytes and that the sink would
\* accept, with the sink present, and the frame did not reach the sink: the
\* audio write failed on the way (lines 206-213)
AudioWriteFails ==
    /\ ndi_send
    /\ Len(log') = Len(log) + 1
    /\ log'[Len(log')].media = 1
    /\ log'[Len(log')].data # <<>>
    /\ log'[Len(log')].sinkOk
    /\ sinkAudio' = sinkAudio

\* C11: a failure of the audio write for a completed audio frame (here: one
\* caused by the frame itself, such as channels = 0) is caught for that frame:
\* no exception leaves process_packet and the receive loop goes on to the
\* stats check.
C11_AudioFailureCaught ==
    [][AudioWriteFails => (pcMain' = "tick" /\ uncaught' = "none")]_vars

\* the step is a read of the output of a decoder process that has ended and
\* left nothing: the read returns zero bytes (end of file) or raises
ReadAtEOF ==
    /\ pcDec = "read" /\ ffmpeg = "dead"
    /\ pcDec' # "read"

\* C12: a read of the decoder's output that returns zero bytes, or raises,
\* ends the decoder-read loop: the thread does not go back to the loop test
\* to read again while the running flag is set.
C12_EOFEndsReadLoop ==
    [][ReadAtEOF => pcDec' = "exited"]_vars

\* the step is a read of the output of a decoder process that has ended with
\* part of a frame left: the read returns 0 < n < frame_size bytes (or raises)
PartialRead ==
    /\ pcDec = "read" /\ ffmpeg = "draining"
    /\ pcDec' # "read"

\* C13: a partial read forwards nothing to the sink and ends the decoder-read
\* loop, so that no read follows it.
C13_PartialReadEndsReadLoop ==
    [][PartialRead => (sinkVideo' = sinkVideo /\ pcDec' = "exited")]_vars

(***************************************************************************)
(* Claims about parse_header, checked under SpecP.                         *)
(***************************************************************************)
\* C14: parse_header returns None exactly for the inputs shorter than 38
\* bytes and for those whose first four bytes are not 4E 44 49 42; for every
\* other input it returns a header whose fields are the big-endian values at
\* the offsets of the wire table.
C14_ParseHeader ==
    IF Len(pkt) < 38 \/ <<pkt[1], pkt[2], pkt[3], pkt[4]>> # <<78, 68, 73, 66>>
    THEN parse_result = <<>>
    ELSE /\ Len(parse_result) = 1
         /\ parse_result[1].magic = FieldAt(pkt, 0, 4)
         /\ parse_result[1].version = FieldAt(pkt, 4, 1)
         /\ parse_result[1].media_type = FieldAt(pkt, 5, 1)
         /\ parse_result[1].source_id = FieldAt(pkt, 6, 1)
         /\ parse_result[1].flags = FieldAt(pkt, 7, 1)
         /\ parse_result[1].sequence_number = FieldAt(pkt, 8, 4)
         /\ parse_result[1].timestamp = FieldAt(pkt, 12, 8)
         /\ parse_result[1].total_size = FieldAt(pkt, 20, 4)
         /\ parse_result[1].fragment_index = FieldAt(pkt, 24, 2)
         /\ parse_result[1].fragment_count = FieldAt(pkt, 26, 2)
         /\ parse_result[1].payload_size = FieldAt(pkt, 28, 2)
         /\ parse_result[1].sample_rate = FieldAt(pkt, 30, 4)
         /\ parse_result[1].channels = FieldAt(pkt, 34, 1)
         /\ parse_result[1].is_keyframe = (FieldAt(pkt, 7, 1) % 2 = 1)

\* C14 witness: a 41-byte datagram with the right magic value was parsed
\* into a header with sequence number 258 (bytes 00 00 01 02) and sample rate
\* 48000 (bytes 00 00 BB 80).
C14_Witness ==
    /\ Len(pkt) = 41
    /\ Len(parse_result) = 1
    /\ parse_result[1].sequence_number = 258
    /\ parse_result[1].sample_rate = 48000
    /\ parse_result[1].fragment_index = 1
    /\ parse_result[1].channels = 2

(***************************************************************************)
(* Claims about log_stats, checked under Spec.                             *)
(***************************************************************************)
\* the step is the return of log_stats to the receive loop (lines 255-256)
LogStatsReturns ==
    pcMain = "ls_audio" /\ pcMain' = "loop"

\* C15: when log_stats returns, packets_received, bytes_received and
\* audio_frames are zero and video_frames has been reset: it counts no frame
\* that it had already counted before the reset (it is zero, but for the
\* frames forwarded since).
C15_CountersResetAfterReport ==
    [][LogStatsReturns =>
          /\ packets_received' = 0
          /\ bytes_received' = 0
          /\ audio_frames' = 0
          /\ video_frames' <= sinkVideo' - counted_at_reset']_vars

(***************************************************************************)
(* Claims about the start of the two threads, checked under Spec.          *)
(***************************************************************************)
\* the step is the decoder-read thread leaving its loop at the loop test of
\* line 173 (not by a failed read)
LeavesAtLoopTest ==
    pcDec = "check" /\ pcDec' = "exited"

\* C16: the decoder-read thread leaves its loop at the loop test only after
\* run() has cleared the running flag in its finally clause: never while
\* run() is still on its way to the receive loop or is accepting packets.
C16_NoExitBeforeRunning ==
    [][LeavesAtLoopTest => pcMain \in {"terminate", "stopped"}]_vars

(***************************************************************************)
(* Claims about the state of a FrameReassembler, checked under SpecR.      *)
(***************************************************************************)

\* C17: while the fragments of the current sequence carry indices below the
\* fragment_count N recorded when the sequence became current, a call returns
\* a frame exactly when the number of distinct indices received equals N, and
\* the frame is the concatenation of the payloads of the indices 0..N-1,
\* whatever fragment_count the later fragments carry.
C17_CompletionAgainstExpected ==
    (run.n >= 1 /\ DOMAIN run.got \subseteq 0..(run.n - 1)) =>
        /\ video.expected_count = run.n
        /\ IF Cardinality(DOMAIN run.got) = run.n
           THEN ret.kind = "frame" /\ ret.data = InIndexOrder(run.got, run.n)
           ELSE ret.kind = "none"

\* C18: after any sequence of add_fragment calls the number of stored
\* fragments does not exceed expected_count.
C18_SizeWithinExpected ==
    Cardinality(DOMAIN video.fragments) <= video.expected_count

\* C19: the fragment map is empty exactly when current_sequence is None, and
\* otherwise it holds exactly the fragments received since the current
\* sequence became current, all of them carried by packets with that
\* sequence number.
C19_FragmentsOfCurrentSequence ==
    /\ (video.current_sequence = None) <=> (DOMAIN video.fragments = {})
    /\ video.current_sequence # None =>
          /\ run.seqs = {video.current_sequence}
          /\ video.fragments = run.got

\* C19 witness: sequence 2 superseded a partial sequence and has two of its
\* fragments stored.
C19_Witness ==
    /\ video.current_sequence = 2
    /\ run.superseded /\ run.seqs = {2}
    /\ DOMAIN video.fragments = {0, 2}
    /\ ret.kind = "none"

\* C20: a fragment that carries fragment_count = 0 never completes anything:
\* the call returns None, its sequence is (still) the current one and the
\* fragment is stored.  So a sequence whose fragments all carry 0 returns None
\* for each of them and stays current until another sequence number arrives.
C20_ZeroCountNeverCompletes ==
    (run.count = 0 /\ run.seqs # {}) =>
        /\ ret.kind = "none"
        /\ run.seqs = {video.current_sequence}
        /\ video.fragments = run.got

\* C20 witness: three fragments of a sequence that began with fragment_count
\* 0, one index repeated, the last one carrying 0: nothing was returned.
C20_Witness ==
    /\ run.n = 0 /\ run.count = 0 /\ run.dup
    /\ Cardinality(DOMAIN run.got) = 3
    /\ ret.kind = "none"
    /\ video.current_sequence = 1
    /\ video.expected_count = 0

(***************************************************************************)
(* Claims about the routing of process_packet, checked under Spec.         *)
(***************************************************************************)
\* the step is a call of process_packet (line 291) with a datagram
PacketProcessed ==
    pcMain = "recv" /\ nRecv' = nRecv + 1

\* C21: a valid packet with mediaType 0 leaves the audio reassembler and the
\* sink's audio input alone, one with mediaType 1 leaves the video
\* reassembler and the decoder's input alone, and one with any other
\* mediaType leaves both reassemblers alone and forwards nothing; so the
\* packets of one media type never change what the other completes.
C21_RoutedByMediaType ==
    [][(PacketProcessed /\ evt'.valid) =>
          /\ evt'.media = 0 =>
                (audio' = audio /\ sinkAudio' = sinkAudio
                   /\ audio_frames' = audio_frames)
          /\ evt'.media = 1 => (video' = video /\ decIn' = decIn)
          /\ evt'.media \notin {0, 1} =>
                (video' = video /\ audio' = audio /\ decIn' = decIn
                   /\ sinkAudio' = sinkAudio /\ log' = log
                   /\ uncaught' = "none")]_vars

\* C21 witness: after fragment 0 of the two-fragment video sequence 2, an
\* audio packet completed an audio frame that reached the sink, and the
\* video reassembler still holds fragment 0 of sequence 2 alone.
C21_Witness ==
    /\ nRecv = 2 /\ pcMain = "tick" /\ uncaught = "none"
    /\ evt.valid /\ evt.media = 1
    /\ Len(log) = 1 /\ log[1].media = 1
    /\ Len(sinkAudio) = 1
    /\ video.current_sequence = 2
    /\ video.fragments = (0 :> <<65, 66, 67>>)
    /\ decIn = <<>>

\* C22: a datagram shorter than 38 bytes or with a wrong magic value is
\* discarded with no effect: process_packet leaves both reassemblers, the
\* packet and byte counters and everything sent to the decoder and the sink
\* as they were, raises nothing, and the loop goes on to the stats check.
C22_MalformedDiscarded ==
    [][(PacketProcessed /\ ~evt'.valid) =>
          /\ video' = video /\ audio' = audio
          /\ packets_received' = packets_received
          /\ bytes_received' = bytes_received
          /\ audio_frames' = audio_frames
          /\ decIn' = decIn /\ sinkAudio' = sinkAudio /\ sinkVideo' = sinkVideo
          /\ log' = log
          /\ uncaught' = "none" /\ pcMain' = "tick"]_vars

\* C22 witness: after fragment 0 of video sequence 2 a malformed datagram
\* was received: one packet is counted and fragment 0 is still stored.
C22_Witness ==
    /\ nRecv = 2 /\ pcMain = "tick" /\ uncaught = "none"
    /\ ~evt.valid /\ evt.op = "dropped"
    /\ packets_received = 1
    /\ video.current_sequence = 2
    /\ video.fragments = (0 :> <<65, 66, 67>>)
    /\ log = <<>>

(***************************************************************************)
(* Claims about stale reassembly state, checked under Spec.                *)
(***************************************************************************)
\* the reassembler r2 still collects the sequence r collected, with a
\* fragment stored for every index r had one for
Kept(r, r2) ==
    /\ r2.current_sequence = r.current_sequence
    /\ DOMAIN r.fragments \subseteq DOMAIN r2.fragments

\* the step handled a valid packet of media type m that superseded the
\* sequence the reassembler r collected, or completed a frame of that type
SupersededOrCompleted(m, r, r2) ==
    /\ PacketProcessed /\ evt'.valid /\ evt'.media = m
    /\ \/ evt'.seq # r.current_sequence
       \/ /\ r2.current_sequence = None
          /\ Len(log') = Len(log) + 1
          /\ log'[Len(log')].media = m

\* C23: a reassembler changes only in a step that handles a valid packet of
\* its media type, and a sequence that is being collected loses its place or
\* a stored fragment only when such a packet carries another sequence number
\* or completes it: timeouts, stats reports and loop iterations leave it as
\* it is.
C23_NoEviction ==
    [][/\ video' # video =>
             (PacketProcessed /\ evt'.valid /\ evt'.media = 0)
       /\ audio' # audio =>
             (PacketProcessed /\ evt'.valid /\ evt'.media = 1)
       /\ (video.current_sequence # None /\ ~Kept(video, video')) =>
             SupersededOrCompleted(0, video, video')
       /\ (audio.current_sequence # None /\ ~Kept(audio, audio')) =>
             SupersededOrCompleted(1, audio, audio')]_vars

\* C23 witness: fragment 0 of video sequence 2 was received and counted, a
\* stats report then reset the packet counter, the loop is waiting in
\* recvfrom once more, and the fragment is still stored.
C23_Witness ==
    /\ nRecv = 1 /\ nTicks = 1 /\ packets_received = 0
    /\ pcMain = "recv"
    /\ evt.valid /\ evt.media = 0 /\ evt.seq = 2
    /\ video.current_sequence = 2
    /\ video.fragments = (0 :> <<65, 66, 67>>)

(***************************************************************************)
(* Claims about the decoder-read thread and the sink, checked under Spec.  *)
(***************************************************************************)
\* C24: every buffer handed to the sink's video write is the result of one
\* read of exactly frame_size bytes, the buffers are handed over in the order
\* they were read, and only a step of the decoder-read thread in
\* send_ndi_video hands one over: the buffer it has just read.  A read of any
\* other length does not lead to send_ndi_video.
C24_OnlyFullFramesForwarded ==
    /\ [](/\ Len(sinkFrames) = sinkVideo
          /\ \A i \in DOMAIN sinkFrames :
                /\ sinkFrames[i].len = "frame_size"
                /\ sinkFrames[i].read \in 1..nReads
                /\ \A j \in DOMAIN sinkFrames :
                      j < i => sinkFrames[j].read < sinkFrames[i].read)
    /\ [][/\ sinkFrames' # sinkFrames =>
                /\ pcDec = "send" /\ pcDec' = "store"
                /\ sinkFrames' = Append(sinkFrames, frame_data)
          /\ (pcDec = "read" /\ pcDec' = "send") =>
                frame_data'.len = "frame_size"]_vars

\* C24 witness: two frames were read and forwarded in order, then the
\* decoder ended and a partial read was not forwarded.
C24_Witness ==
    /\ Len(sinkFrames) = 2
    /\ sinkFrames[1].read = 1 /\ sinkFrames[2].read = 2
    /\ frame_data.len = "partial"
    /\ pcDec = "check"
    /\ sinkVideo = 2

(***************************************************************************)
(* Claims about the three receivers, checked under SpecV.                  *)
(***************************************************************************)
\* the bytes a step puts on the decoder's input: receiver.py writes the
\* frame add_fragment returned if it holds bytes (line 231)
WrittenByReceiver ==
    IF ret.kind = "frame" /\ Truthy(ret.data) THEN ret.data ELSE <<>>

\* the bytes a step of the inline code puts on the decoder's input
WrittenInline(out) ==
    IF out.kind = "frame" THEN out.data ELSE <<>>

\* C25: fed with the same video packets, receiver_av.py and
\* receiver_minimal.py complete a frame at the same packets as add_fragment
\* does, put the same bytes on the decoder's input, fail in the join at the
\* same packets, and are left collecting the same fragments of the same
\* sequence.
C25_VariantsReassembleAlike ==
    /\ av.out.kind = ret.kind /\ minimal.out.kind = ret.kind
    /\ WrittenInline(av.out) = WrittenByReceiver
    /\ WrittenInline(minimal.out) = WrittenByReceiver
    /\ av.video_frags = video.fragments /\ av.video_seq = video.current_sequence
    /\ minimal.fragments = video.fragments
    /\ minimal.current_seq = video.current_sequence

\* C25 witness: a frame of two fragments with different payloads was
\* completed in all three receivers, joined in index order.
C25_Witness ==
    /\ ret.kind = "frame" /\ ret.data = <<7, 8, 9>>
    /\ av.out = [kind |-> "frame", data |-> <<7, 8, 9>>]
    /\ minimal.out = [kind |-> "frame", data |-> <<7, 8, 9>>]
    /\ video.current_sequence = None
    /\ video.expected_count = 2

=============================================================================
